---------------------------- MODULE Spec2Model ----------------------------
(***************************************************************************)
(* State-machine model of the resilience and state layer of the cluster    *)
(* health gateway:                                                         *)
(*   - pkg/cache/memory_cache.go   MemoryCache (TTL cache with statistics) *)
(*   - internal/server session manager (SessionManager, bounded registry)  *)
(* Time is a discrete clock `now`; every time.Now() in the code reads it.  *)
(* Handlers that run entirely under the exclusive lock are one action;     *)
(* handlers that run under the shared read lock, or that drop the lock     *)
(* between steps, are split at the points where other goroutines can run.  *)
(***************************************************************************)
EXTENDS Integers, FiniteSets, Sequences, TLC

(***************************************************************************)
(* Bounds of the model.                                                    *)
(***************************************************************************)
MaxTime == 2
MaxStats == 2
DefaultTTL == 1

Keys == {"k1", "k2"}
Values == {"v1", "v2"}
Errors == {"e1", "e2"}
TTLs == {0, DefaultTTL}
Threads == {"t1", "t2"}

\* The registry's configuration and the inputs of its calls.
MaxSessions == 2
SessionTTL == 1
IDs == {"s1", "s2", "s3"}
Metadata == {"nil", "m1"}
InfoMetadata == {"nil", "empty", "m1", "m2"}

\* retry policy
MaxRetriesBound == 3
MaxDuration == 2
Multipliers == {1, 2}
FnErrors == {"nil", "Timeout", "ServiceUnavailable", "NotFound"}

VARIABLES
    now,        \* the system clock read by time.Now()
    data,       \* MemoryCache.data: map from key to CacheEntry
    hits,       \* MemoryCache.stats.hits
    misses,     \* MemoryCache.stats.misses
    evictions,  \* MemoryCache.stats.evictions
    readers,    \* goroutines holding MemoryCache.mu for reading (RLock)
    cth,        \* per goroutine: the frame of its Get / GetOrSet call in progress
    getCalls,   \* history: Get lookups issued since creation or the last reset
    clast,      \* history: the cache call that returned last, with its result
    sessions,   \* SessionManager.sessions: map from session id to *Session
    gth,        \* per goroutine: the frame of its GetSession call in progress
    created,    \* history: successful CreateSession calls since the registry
                \* was last empty, less the sessions removed since
    slast,      \* history: the registry call that returned last, with its result
    cfg,        \* RetryWithBackoff: the RetryConfig in use
    rpc,        \* RetryWithBackoff: position of the call
    attempt,    \* RetryWithBackoff: loop variable
    backoff,    \* RetryWithBackoff: current backoff
    lastErr,    \* RetryWithBackoff: lastErr
    rret,       \* RetryWithBackoff: the error returned ("none" while running)
    ctxDone,    \* ctx.Done() is closed
    timerFired, \* the channel of time.After(backoff) is ready
    fnErrs,     \* history: the results of the invocations of fn, in order
    waits,      \* history: the backoff waits that elapsed, in order
    doneAt,     \* history: invocations made when ctx was cancelled during a
                \* backoff wait (-1: no such cancellation)
    stopCleanup,   \* MemoryCache.stopCleanup is closed
    cacheSweeper,  \* the goroutine running MemoryCache.cleanupExpired
    stopClean,     \* SessionManager.stopClean is closed
    sessSweeper    \* the goroutine running SessionManager.cleanupLoop

cacheVars == <<data, hits, misses, evictions, readers, cth, getCalls, clast>>
sessVars == <<sessions, gth, created, slast>>
retryVars == <<cfg, rpc, attempt, backoff, lastErr, rret, ctxDone, timerFired,
               fnErrs, waits, doneAt>>
shutVars == <<stopCleanup, cacheSweeper, stopClean, sessSweeper>>
vars == <<now, cacheVars, sessVars, retryVars, shutVars>>

(***************************************************************************)
(* The clock.                                                              *)
(***************************************************************************)
Tick ==
    /\ now < MaxTime
    /\ now' = now + 1

(***************************************************************************)
(* pkg/cache/memory_cache.go                                               *)
(***************************************************************************)
CacheEntry(value, expiration) == [Value |-> value, Expiration |-> expiration]

\* A variant of IsExpired with the comparison turned round (Before for After).
IsExpiredBefore(e, t) == t < e.Expiration

\* CacheEntry.IsExpired: time.Now().After(e.Expiration)
IsExpired(e, t) == t > e.Expiration

IdleFrame ==
    [pc |-> "idle", op |-> "none", key |-> "none", ttl |-> 0,
     found |-> FALSE, value |-> "nil", reg |-> 0]

\* The counters are capped for the model: a call that would count one more
\* event (a lookup, or n removed entries) waits for ResetStatistics.
StatsRoom(n) == getCalls + evictions + n <= MaxStats

NoCall == [op |-> "none"]

\* What the lookup in Get yields in the current state: the entry's value and
\* true, or nil and false when the key is absent or the entry is expired.
GetResult(key) ==
    IF key \in DOMAIN data /\ ~IsExpired(data[key], now)
    THEN [found |-> TRUE, value |-> data[key].Value]
    ELSE [found |-> FALSE, value |-> "nil"]

\* Get, lines 60-73: RLock, the map lookup and the expiry check.  The frame
\* remembers which counter is to be incremented.  op is the entry point:
\* Get itself, or the Get inside GetOrSet / GetOrSetWithTTL (ttl given).
GetLookup(t, op, key, ttl) ==
    /\ cth[t].pc = "idle"
    /\ StatsRoom(1)
    /\ readers' = readers \cup {t}
    /\ cth' = [cth EXCEPT ![t] =
                 [pc |-> "load", op |-> op, key |-> key, ttl |-> ttl,
                  found |-> GetResult(key).found,
                  value |-> GetResult(key).value, reg |-> 0]]
    /\ getCalls' = getCalls + 1
    /\ UNCHANGED <<now, data, hits, misses, evictions, clast>>

\* c.stats.hits++ / c.stats.misses++ under the read lock: the load.
GetLoad(t) ==
    /\ cth[t].pc = "load"
    /\ cth' = [cth EXCEPT ![t].pc = "store",
                          ![t].reg = IF cth[t].found THEN hits ELSE misses]
    /\ UNCHANGED <<now, data, hits, misses, evictions, readers, getCalls, clast>>

\* A variant of GetStore in which the Get inside GetOrSet keeps the read
\* lock on a miss, so that compute runs with the lock held.
GetStoreKeepsLock(t) ==
    /\ cth[t].pc = "store"
    /\ IF cth[t].found
       THEN hits' = cth[t].reg + 1 /\ misses' = misses
       ELSE misses' = cth[t].reg + 1 /\ hits' = hits
    /\ IF cth[t].op = "Get"
       THEN /\ cth' = [cth EXCEPT ![t] = IdleFrame]
            /\ readers' = readers \ {t}
            /\ clast' = [op |-> "Get", found |-> cth[t].found,
                         value |-> cth[t].value]
       ELSE IF cth[t].found
       THEN /\ cth' = [cth EXCEPT ![t] = IdleFrame]
            /\ readers' = readers \ {t}
            /\ clast' = [op |-> "GetOrSet", value |-> cth[t].value, err |-> "nil"]
       ELSE /\ cth' = [cth EXCEPT ![t].pc = "compute"]
            /\ readers' = readers
            /\ clast' = clast
    /\ UNCHANGED <<now, data, evictions, getCalls>>

\* The store of the incremented counter, RUnlock and the return of Get.  A
\* plain Get returns to its caller; inside GetOrSet a hit returns the cached
\* value and a miss goes on to compute.
GetStore(t) ==
    /\ cth[t].pc = "store"
    /\ IF cth[t].found
       THEN hits' = cth[t].reg + 1 /\ misses' = misses
       ELSE misses' = cth[t].reg + 1 /\ hits' = hits
    /\ readers' = readers \ {t}
    /\ IF cth[t].op = "Get"
       THEN /\ cth' = [cth EXCEPT ![t] = IdleFrame]
            /\ clast' = [op |-> "Get", found |-> cth[t].found,
                         value |-> cth[t].value]
       ELSE IF cth[t].found
       THEN /\ cth' = [cth EXCEPT ![t] = IdleFrame]
            /\ clast' = [op |-> "GetOrSet", value |-> cth[t].value, err |-> "nil"]
       ELSE /\ cth' = [cth EXCEPT ![t].pc = "compute"]
            /\ clast' = clast
    /\ UNCHANGED <<now, data, evictions, getCalls>>

\* Get(key)
Get(t, key) == GetLookup(t, "Get", key, 0)

\* A variant of StoreEntry that keeps an entry already stored under the key.
StoreEntryIfAbsent(key, value, ttl) ==
    [k \in DOMAIN data \cup {key} |->
        IF k \in DOMAIN data THEN data[k] ELSE CacheEntry(value, now + ttl)]

\* The map write of SetWithTTL, lines 89-92.
StoreEntry(key, value, ttl) ==
    [k \in DOMAIN data \cup {key} |->
        IF k = key THEN CacheEntry(value, now + ttl) ELSE data[k]]

\* A variant of SetWithTTL that counts an eviction when it overwrites an
\* entry.
SetWithTTLCountsOverwrite(key, value, ttl) ==
    /\ readers = {}
    /\ data' = StoreEntry(key, value, ttl)
    /\ IF key \in DOMAIN data
       THEN StatsRoom(1) /\ evictions' = evictions + 1
       ELSE evictions' = evictions
    /\ clast' = [op |-> "Set", key |-> key, replaced |-> key \in DOMAIN data]
    /\ UNCHANGED <<now, hits, misses, readers, cth, getCalls>>

\* SetWithTTL(key, value, ttl): under the exclusive lock.
SetWithTTL(key, value, ttl) ==
    /\ readers = {}
    /\ data' = StoreEntry(key, value, ttl)
    /\ clast' = [op |-> "Set", key |-> key, replaced |-> key \in DOMAIN data]
    /\ UNCHANGED <<now, hits, misses, evictions, readers, cth, getCalls>>

\* Set(key, value): SetWithTTL with the default TTL.
Set(key, value) == SetWithTTL(key, value, DefaultTTL)

\* A variant of Delete that counts an eviction whether or not the key exists.
DeleteAlwaysCounts(key) ==
    /\ readers = {}
    /\ StatsRoom(1)
    /\ data' = [k \in DOMAIN data \ {key} |-> data[k]]
    /\ evictions' = evictions + 1
    /\ clast' = [op |-> "Delete", existed |-> key \in DOMAIN data, ret |-> "void"]
    /\ UNCHANGED <<now, hits, misses, readers, cth, getCalls>>

\* Delete(key): under the exclusive lock; the function returns no value.
Delete(key) ==
    /\ readers = {}
    /\ IF key \in DOMAIN data
       THEN /\ StatsRoom(1)
            /\ data' = [k \in DOMAIN data \ {key} |-> data[k]]
            /\ evictions' = evictions + 1
       ELSE UNCHANGED <<data, evictions>>
    /\ clast' = [op |-> "Delete", existed |-> key \in DOMAIN data, ret |-> "void"]
    /\ UNCHANGED <<now, hits, misses, readers, cth, getCalls>>

\* A variant of Clear that counts only the entries that had not expired.
ClearCountsLive ==
    /\ readers = {}
    /\ StatsRoom(Cardinality(DOMAIN data))
    /\ data' = <<>>
    /\ evictions' = evictions
                    + Cardinality({k \in DOMAIN data : ~IsExpired(data[k], now)})
    /\ clast' = [op |-> "Clear"]
    /\ UNCHANGED <<now, hits, misses, readers, cth, getCalls>>

\* Clear(): under the exclusive lock.
Clear ==
    /\ readers = {}
    /\ StatsRoom(Cardinality(DOMAIN data))
    /\ data' = <<>>
    /\ evictions' = evictions + Cardinality(DOMAIN data)
    /\ clast' = [op |-> "Clear"]
    /\ UNCHANGED <<now, hits, misses, readers, cth, getCalls>>

\* A variant of ResetStatistics that also empties the store.
ResetStatisticsClears ==
    /\ readers = {}
    /\ hits' = 0
    /\ misses' = 0
    /\ evictions' = 0
    /\ getCalls' = 0
    /\ data' = <<>>
    /\ clast' = [op |-> "ResetStatistics"]
    /\ UNCHANGED <<now, readers, cth>>

\* Lines 121-125: float64(hits) / float64(total) * 100, or 0.0 when total
\* is 0, as the exact fraction num / den.
HitRate(h, m) ==
    IF h + m > 0 THEN [num |-> h * 100, den |-> h + m]
    ELSE [num |-> 0, den |-> 1]

\* GetStatistics(): under the read lock, which other readers can hold at
\* the same time.
GetStatistics ==
    /\ clast' = [op |-> "GetStatistics", Hits |-> hits, Misses |-> misses,
                 Evictions |-> evictions,
                 Entries |-> Cardinality(DOMAIN data),
                 HitRate |-> HitRate(hits, misses)]
    /\ UNCHANGED <<now, data, hits, misses, evictions, readers, cth, getCalls>>

\* ResetStatistics(): under the exclusive lock.
ResetStatistics ==
    /\ readers = {}
    /\ hits' = 0
    /\ misses' = 0
    /\ evictions' = 0
    /\ getCalls' = 0
    /\ clast' = [op |-> "ResetStatistics"]
    /\ UNCHANGED <<now, data, readers, cth>>

\* A variant of ExpiredKeys that takes an entry at its expiry instant for
\* expired (>= for >).
ExpiredKeysEager == {k \in DOMAIN data : now >= data[k].Expiration}

\* One pass of the background sweep (the ticker case of cleanupExpired),
\* under the exclusive lock, while the goroutine has not returned.
ExpiredKeys == {k \in DOMAIN data : now > data[k].Expiration}

CacheCleanupExpired ==
    /\ cacheSweeper = "running"
    /\ readers = {}
    /\ ExpiredKeys # {}
    /\ StatsRoom(Cardinality(ExpiredKeys))
    /\ data' = [k \in DOMAIN data \ ExpiredKeys |-> data[k]]
    /\ evictions' = evictions + Cardinality(ExpiredKeys)
    /\ clast' = [op |-> "cleanupExpired"]
    /\ UNCHANGED <<now, hits, misses, readers, cth, getCalls>>

\* GetOrSet(ctx, key, compute): the lookup.
GetOrSet(t, key) == GetLookup(t, "GetOrSet", key, DefaultTTL)

\* GetOrSetWithTTL(ctx, key, ttl, compute): the lookup.
GetOrSetWithTTL(t, key, ttl) == GetLookup(t, "GetOrSet", key, ttl)

\* A variant of ComputeFail that caches the nil value of the failed compute.
ComputeFailStores(t, err) ==
    /\ cth[t].pc = "compute"
    /\ data' = [k \in DOMAIN data \cup {cth[t].key} |->
                  IF k = cth[t].key
                  THEN CacheEntry("nil", now + cth[t].ttl) ELSE data[k]]
    /\ cth' = [cth EXCEPT ![t] = IdleFrame]
    /\ clast' = [op |-> "GetOrSet", value |-> "nil", err |-> err]
    /\ UNCHANGED <<now, hits, misses, evictions, readers, getCalls>>

\* compute() returns an error: GetOrSet returns it and stores nothing.
ComputeFail(t, err) ==
    /\ cth[t].pc = "compute"
    /\ cth' = [cth EXCEPT ![t] = IdleFrame]
    /\ clast' = [op |-> "GetOrSet", value |-> "nil", err |-> err]
    /\ UNCHANGED <<now, data, hits, misses, evictions, readers, getCalls>>

\* compute() returns a value; no lock is held while it runs.
ComputeOk(t, value) ==
    /\ cth[t].pc = "compute"
    /\ cth' = [cth EXCEPT ![t].pc = "set", ![t].value = value]
    /\ UNCHANGED <<now, data, hits, misses, evictions, readers, getCalls, clast>>

\* A variant of GetOrSetStore that keeps a live entry another caller stored
\* under the key in the meantime.
GetOrSetStoreKeepsFirst(t) ==
    /\ cth[t].pc = "set"
    /\ readers = {}
    /\ data' = IF GetResult(cth[t].key).found
               THEN data
               ELSE StoreEntry(cth[t].key, cth[t].value, cth[t].ttl)
    /\ cth' = [cth EXCEPT ![t] = IdleFrame]
    /\ clast' = [op |-> "GetOrSet", value |-> cth[t].value, err |-> "nil"]
    /\ UNCHANGED <<now, hits, misses, evictions, readers, getCalls>>

\* A variant of GetOrSetStore that returns the computed value without
\* storing it.
GetOrSetNoStore(t) ==
    /\ cth[t].pc = "set"
    /\ readers = {}
    /\ cth' = [cth EXCEPT ![t] = IdleFrame]
    /\ clast' = [op |-> "GetOrSet", value |-> cth[t].value, err |-> "nil"]
    /\ UNCHANGED <<now, data, hits, misses, evictions, readers, getCalls>>

\* c.Set(key, value) / c.SetWithTTL(key, value, ttl) at the end of GetOrSet,
\* and the return of the computed value.
GetOrSetStore(t) ==
    /\ cth[t].pc = "set"
    /\ readers = {}
    /\ data' = StoreEntry(cth[t].key, cth[t].value, cth[t].ttl)
    /\ cth' = [cth EXCEPT ![t] = IdleFrame]
    /\ clast' = [op |-> "GetOrSet", value |-> cth[t].value, err |-> "nil"]
    /\ UNCHANGED <<now, hits, misses, evictions, readers, getCalls>>

\* NewMemoryCache
CacheInit ==
    /\ data = <<>>
    /\ hits = 0
    /\ misses = 0
    /\ evictions = 0
    /\ readers = {}
    /\ cth = [t \in Threads |-> IdleFrame]
    /\ getCalls = 0
    /\ clast = NoCall

\* The calls of the cache's clients and its background sweep.  T: the
\* goroutines that issue Get / GetOrSet calls; K, V, L: the keys, values and
\* TTLs they pass.  Set, Delete, Clear and ResetStatistics run under the
\* exclusive lock and can come from any goroutine.
CacheNextOver(T, K, V, L) ==
    \/ Tick /\ UNCHANGED <<cacheVars, sessVars, retryVars, shutVars>>
    \/ \E t \in T, k \in K : Get(t, k) /\ UNCHANGED <<sessVars, retryVars, shutVars>>
    \/ \E t \in T : GetLoad(t) /\ UNCHANGED <<sessVars, retryVars, shutVars>>
    \/ \E t \in T : GetStore(t) /\ UNCHANGED <<sessVars, retryVars, shutVars>>
    \/ \E k \in K, v \in V : Set(k, v) /\ UNCHANGED <<sessVars, retryVars, shutVars>>
    \/ \E k \in K, v \in V, ttl \in L : SetWithTTL(k, v, ttl) /\ UNCHANGED <<sessVars, retryVars, shutVars>>
    \/ \E k \in K : Delete(k) /\ UNCHANGED <<sessVars, retryVars, shutVars>>
    \/ Clear /\ UNCHANGED <<sessVars, retryVars, shutVars>>
    \/ ResetStatistics /\ UNCHANGED <<sessVars, retryVars, shutVars>>
    \/ CacheCleanupExpired /\ UNCHANGED <<sessVars, retryVars, shutVars>>
    \/ \E t \in T, k \in K : GetOrSet(t, k) /\ UNCHANGED <<sessVars, retryVars, shutVars>>
    \/ \E t \in T, k \in K, ttl \in L : GetOrSetWithTTL(t, k, ttl) /\ UNCHANGED <<sessVars, retryVars, shutVars>>
    \/ \E t \in T, e \in Errors : ComputeFail(t, e) /\ UNCHANGED <<sessVars, retryVars, shutVars>>
    \/ \E t \in T, v \in V : ComputeOk(t, v) /\ UNCHANGED <<sessVars, retryVars, shutVars>>
    \/ \E t \in T : GetOrSetStore(t) /\ UNCHANGED <<sessVars, retryVars, shutVars>>

\* One Get / GetOrSet call in flight at a time, beside any number of writers.
CacheNext == CacheNextOver({"t1"}, Keys, Values, TTLs)

\* Two goroutines inside Get / GetOrSet at the same time, on one key.
CacheNextConc == CacheNextOver(Threads, {"k1"}, {"v1"}, {DefaultTTL})

\* The cache's calls on one key, with GetStatistics.
CacheNextStats ==
    \/ CacheNextOver({"t1"}, {"k1"}, {"v1"}, {DefaultTTL})
    \/ GetStatistics /\ UNCHANGED <<sessVars, retryVars, shutVars>>

\* Two goroutines inside GetOrSet at the same time, on one key, whose compute
\* functions can return different values.
CacheNextRace == CacheNextOver(Threads, {"k1"}, Values, {DefaultTTL})

(***************************************************************************)
(* internal/server: SessionManager                                         *)
(***************************************************************************)
Session(id, createdAt, expiresAt, lastUsed, metadata) ==
    [ID |-> id, CreatedAt |-> createdAt, ExpiresAt |-> expiresAt,
     LastUsed |-> lastUsed, Metadata |-> metadata]

\* A GetSession frame holds the *Session it looked up.  While the registry
\* still maps the id to that object (live) the object is read through the
\* map; once the id is removed or overwritten nothing writes the object any
\* more, and the frame keeps the ExpiresAt it was left with (exp).
IdleGet == [pc |-> "idle", id |-> "none", live |-> FALSE, exp |-> 0]

Min(a, b) == IF a < b THEN a ELSE b

Max(a, b) == IF a > b THEN a ELSE b

\* The sessions of `reg` whose expiry has passed at time t.
ExpiredIds(reg, t) == {id \in DOMAIN reg : t > reg[id].ExpiresAt}

\* A variant of cleanupExpiredLocked that removes nothing.
cleanupExpiredLockedNone(reg, t) == reg

\* A variant of cleanupExpiredLocked that removes every session.
cleanupExpiredLockedAll(reg, t) == [id \in {} |-> reg[id]]

\* cleanupExpiredLocked: the registry without its expired sessions.
cleanupExpiredLocked(reg, t) ==
    [id \in DOMAIN reg \ ExpiredIds(reg, t) |-> reg[id]]

\* The frames after the registry changed from `reg` to `reg2`: a frame whose
\* session object is no longer the one stored under its id keeps the object.
Detach(reg, reg2) ==
    [t \in Threads |->
        IF gth[t].pc = "check" /\ gth[t].live
           /\ (gth[t].id \notin DOMAIN reg2 \/ reg2[gth[t].id] # reg[gth[t].id])
        THEN [gth[t] EXCEPT !.live = FALSE, !.exp = reg[gth[t].id].ExpiresAt]
        ELSE gth[t]]

\* The history counter after n sessions were removed, leaving `reg2`.
Removed(n, reg2) == IF DOMAIN reg2 = {} THEN 0 ELSE Max(created - n, 0)

\* A variant of AtCapacity that is off by one (> for >=).
AtCapacityOffByOne(reg) == Cardinality(DOMAIN reg) > MaxSessions

\* The capacity test of CreateSession, line 58 and line 61.
AtCapacity(reg) == Cardinality(DOMAIN reg) >= MaxSessions

\* CreateSession(metadata).  gen is what generateSessionID returns: an id,
\* or "err" when the random source fails.  An id that is already stored is
\* overwritten by line 81.
CreateSession(metadata, gen) ==
    LET swept == IF AtCapacity(sessions)
                 THEN cleanupExpiredLocked(sessions, now) ELSE sessions
        gone == Cardinality(DOMAIN sessions) - Cardinality(DOMAIN swept)
    IN  IF AtCapacity(swept)
        THEN /\ sessions' = swept
             /\ gth' = Detach(sessions, swept)
             /\ created' = Removed(gone, swept)
             /\ slast' = [op |-> "CreateSession", err |-> "capacity"]
             /\ UNCHANGED now
        ELSE IF gen = "err"
        THEN /\ sessions' = swept
             /\ gth' = Detach(sessions, swept)
             /\ created' = Removed(gone, swept)
             /\ slast' = [op |-> "CreateSession", err |-> "generate"]
             /\ UNCHANGED now
        ELSE LET stored == [id \in DOMAIN swept \cup {gen} |->
                              IF id = gen
                              THEN Session(gen, now, now + SessionTTL, now, metadata)
                              ELSE swept[id]]
             IN  /\ sessions' = stored
                 /\ gth' = [t \in Threads |->
                              IF gth[t].pc = "check" /\ gth[t].live
                                 /\ (gth[t].id = gen \/ gth[t].id \notin DOMAIN swept)
                              THEN [gth[t] EXCEPT
                                      !.live = FALSE,
                                      !.exp = sessions[gth[t].id].ExpiresAt]
                              ELSE gth[t]]
                 /\ created' = Min(Removed(gone, swept) + 1, MaxSessions + 1)
                 /\ slast' = [op |-> "CreateSession", err |-> "nil"]
                 /\ UNCHANGED now

\* GetSession, lines 87-93: the lookup under the read lock.
GetSessionLookup(t, id) ==
    /\ gth[t].pc = "idle"
    /\ IF id \in DOMAIN sessions
       THEN /\ gth' = [gth EXCEPT ![t] = [pc |-> "check", id |-> id,
                                          live |-> TRUE, exp |-> 0]]
            /\ UNCHANGED slast
       ELSE /\ slast' = [op |-> "GetSession", ret |-> "absent", why |-> "unknown"]
            /\ UNCHANGED gth
    /\ UNCHANGED <<now, sessions, created>>

\* session.ExpiresAt of the object a frame in "check" points to.
PointeeExpiresAt(t) ==
    IF gth[t].live THEN sessions[gth[t].id].ExpiresAt ELSE gth[t].exp

\* A variant of GetSessionCheck without the expiry check: it returns the
\* session it looked up whatever its expiry.
GetSessionCheckNoExpiry(t) ==
    /\ gth[t].pc = "check"
    /\ gth' = [gth EXCEPT ![t] = IdleGet]
    /\ slast' = [op |-> "GetSession", ret |-> "session", why |-> "valid"]
    /\ UNCHANGED <<now, sessions, created>>

\* GetSession, lines 96-101: the expiry check, made with no lock held.
GetSessionCheck(t) ==
    /\ gth[t].pc = "check"
    /\ IF now > PointeeExpiresAt(t)
       THEN /\ gth' = [gth EXCEPT ![t] = [pc |-> "delete", id |-> gth[t].id,
                                          live |-> FALSE, exp |-> 0]]
            /\ UNCHANGED slast
       ELSE /\ gth' = [gth EXCEPT ![t] = IdleGet]
            /\ slast' = [op |-> "GetSession", ret |-> "session", why |-> "valid"]
    /\ UNCHANGED <<now, sessions, created>>

\* The registry without `id`.
Without(reg, id) == [x \in DOMAIN reg \ {id} |-> reg[x]]

\* A variant of GetSessionDelete that returns nil without removing the id.
GetSessionNoDelete(t) ==
    /\ gth[t].pc = "delete"
    /\ gth' = [gth EXCEPT ![t] = IdleGet]
    /\ slast' = [op |-> "GetSession", ret |-> "absent", why |-> "expired"]
    /\ UNCHANGED <<now, sessions, created>>

\* GetSession, line 97-98: sm.DeleteSession(sessionID), then return nil.
GetSessionDelete(t) ==
    /\ gth[t].pc = "delete"
    /\ sessions' = Without(sessions, gth[t].id)
    /\ gth' = [Detach(sessions, Without(sessions, gth[t].id)) EXCEPT ![t] = IdleGet]
    /\ created' = IF gth[t].id \in DOMAIN sessions
                  THEN Removed(1, Without(sessions, gth[t].id)) ELSE created
    /\ slast' = [op |-> "GetSession", ret |-> "absent", why |-> "expired"]
    /\ UNCHANGED now

\* A variant of TouchSession that extends the expiry from the previous use
\* instead of from the present clock reading.
TouchSessionStaleExpiry(id, t2, t3) ==
    IF id \notin DOMAIN sessions
    THEN /\ t2 = now /\ t3 = now
         /\ slast' = [op |-> "TouchSession", ret |-> FALSE]
         /\ UNCHANGED <<now, sessions, gth, created>>
    ELSE IF now > sessions[id].ExpiresAt
    THEN /\ t2 = now /\ t3 = now
         /\ sessions' = [x \in DOMAIN sessions \ {id} |-> sessions[x]]
         /\ gth' = Detach(sessions, [x \in DOMAIN sessions \ {id} |-> sessions[x]])
         /\ created' = Removed(1, [x \in DOMAIN sessions \ {id} |-> sessions[x]])
         /\ slast' = [op |-> "TouchSession", ret |-> FALSE]
         /\ UNCHANGED now
    ELSE /\ now <= t2 /\ t2 <= t3
         /\ sessions' = [sessions EXCEPT
                           ![id].LastUsed = t2,
                           ![id].ExpiresAt = sessions[id].LastUsed + SessionTTL]
         /\ now' = t3
         /\ slast' = [op |-> "TouchSession", ret |-> TRUE]
         /\ UNCHANGED <<gth, created>>

\* A variant of TouchSession without the expiry check: it refreshes an
\* expired session.
TouchSessionNoExpiryCheck(id, t2, t3) ==
    IF id \notin DOMAIN sessions
    THEN /\ t2 = now /\ t3 = now
         /\ slast' = [op |-> "TouchSession", ret |-> FALSE]
         /\ UNCHANGED <<now, sessions, gth, created>>
    ELSE /\ now <= t2 /\ t2 <= t3
         /\ sessions' = [sessions EXCEPT ![id].LastUsed = t2,
                                           ![id].ExpiresAt = t3 + SessionTTL]
         /\ now' = t3
         /\ slast' = [op |-> "TouchSession", ret |-> TRUE]
         /\ UNCHANGED <<gth, created>>

\* TouchSession(sessionID).  The code reads the clock three times: for the
\* expiry check (now), for LastUsed (t2) and for ExpiresAt (t3).
TouchSession(id, t2, t3) ==
    IF id \notin DOMAIN sessions
    THEN /\ t2 = now /\ t3 = now
         /\ slast' = [op |-> "TouchSession", ret |-> FALSE]
         /\ UNCHANGED <<now, sessions, gth, created>>
    ELSE IF now > sessions[id].ExpiresAt
    THEN /\ t2 = now /\ t3 = now
         /\ sessions' = Without(sessions, id)
         /\ gth' = Detach(sessions, Without(sessions, id))
         /\ created' = Removed(1, Without(sessions, id))
         /\ slast' = [op |-> "TouchSession", ret |-> FALSE]
         /\ UNCHANGED now
    ELSE /\ now <= t2 /\ t2 <= t3
         /\ sessions' = [sessions EXCEPT ![id].LastUsed = t2,
                                           ![id].ExpiresAt = t3 + SessionTTL]
         /\ now' = t3
         /\ slast' = [op |-> "TouchSession", ret |-> TRUE]
         /\ UNCHANGED <<gth, created>>

\* No goroutine is inside TouchSession holding the exclusive lock.
NoWriter == \A t \in Threads : gth[t].pc # "touch"

\* TouchSession, lines 106-117, as a step of its own: Lock, the lookup and
\* the expiry check.  An unknown or expired id ends the call here; for a
\* valid session the goroutine goes on holding the lock.
TouchSessionLock(t, id) ==
    /\ gth[t].pc = "idle"
    /\ NoWriter
    /\ IF id \notin DOMAIN sessions
       THEN /\ slast' = [op |-> "TouchSession", ret |-> FALSE]
            /\ UNCHANGED <<now, sessions, gth, created>>
       ELSE IF now > sessions[id].ExpiresAt
       THEN /\ sessions' = Without(sessions, id)
            /\ gth' = Detach(sessions, Without(sessions, id))
            /\ created' = Removed(1, Without(sessions, id))
            /\ slast' = [op |-> "TouchSession", ret |-> FALSE]
            /\ UNCHANGED now
       ELSE /\ gth' = [gth EXCEPT ![t] = [pc |-> "touch", id |-> id,
                                          live |-> TRUE, exp |-> 0]]
            /\ UNCHANGED <<now, sessions, created, slast>>

\* TouchSession, lines 120-123: the writes of LastUsed and ExpiresAt, the
\* return and the deferred Unlock.
TouchSessionUnlock(t) ==
    /\ gth[t].pc = "touch"
    /\ sessions' = [sessions EXCEPT ![gth[t].id].LastUsed = now,
                                    ![gth[t].id].ExpiresAt = now + SessionTTL]
    /\ gth' = [gth EXCEPT ![t] = IdleGet]
    /\ slast' = [op |-> "TouchSession", ret |-> TRUE]
    /\ UNCHANGED <<now, created>>

\* A variant of DeleteSession that reports a removal for every id.
DeleteSessionAlwaysTrue(id) ==
    /\ sessions' = [x \in DOMAIN sessions \ {id} |-> sessions[x]]
    /\ gth' = Detach(sessions, [x \in DOMAIN sessions \ {id} |-> sessions[x]])
    /\ created' = IF id \in DOMAIN sessions
                  THEN Removed(1, [x \in DOMAIN sessions \ {id} |-> sessions[x]])
                  ELSE created
    /\ slast' = [op |-> "DeleteSession", ret |-> TRUE]
    /\ UNCHANGED now

\* DeleteSession(sessionID)
DeleteSession(id) ==
    /\ sessions' = Without(sessions, id)
    /\ gth' = Detach(sessions, Without(sessions, id))
    /\ created' = IF id \in DOMAIN sessions
                  THEN Removed(1, Without(sessions, id)) ELSE created
    /\ slast' = [op |-> "DeleteSession", ret |-> id \in DOMAIN sessions]
    /\ UNCHANGED now

\* sm.ttl.String(): a time.Duration as text, one unit of the model's clock
\* being a minute ("0s", "1m0s", "2m0s", ...).
DurationString(d) == IF d = 0 THEN "0s" ELSE ToString(d) \o "m0s"

\* A variant of GetStats that counts every stored session as active.
GetStatsCountsAll ==
    [ActiveSessions |-> Cardinality(DOMAIN sessions),
     ExpiredSessions |-> Cardinality(ExpiredIds(sessions, now)),
     TotalSessions |-> Cardinality(DOMAIN sessions),
     MaxSessions |-> MaxSessions,
     SessionTTL |-> DurationString(SessionTTL)]

\* GetStats(): the classification of the stored sessions at one clock
\* reading, made under the read lock.
GetStats ==
    [ActiveSessions |-> Cardinality(DOMAIN sessions \ ExpiredIds(sessions, now)),
     ExpiredSessions |-> Cardinality(ExpiredIds(sessions, now)),
     TotalSessions |-> Cardinality(DOMAIN sessions),
     MaxSessions |-> MaxSessions,
     SessionTTL |-> DurationString(SessionTTL)]

\* A call of GetStats(): it returns the statistics and writes nothing.
GetStatsCall ==
    /\ slast' = [op |-> "GetStats", stats |-> GetStats]
    /\ UNCHANGED <<now, sessions, gth, created>>

\* len(session.Metadata): a nil map and an empty map have no entries.
MetadataLen(m) == IF m \in {"nil", "empty"} THEN 0 ELSE 1

\* A variant of NewSessionInfo that copies the metadata into the view.
NewSessionInfoLeaks(session, t) ==
    [ID |-> session.ID, CreatedAt |-> session.CreatedAt,
     ExpiresAt |-> session.ExpiresAt, LastUsed |-> session.LastUsed,
     TTLSeconds |-> session.ExpiresAt - t, IsValid |-> TRUE,
     HasMetadata |-> MetadataLen(session.Metadata) > 0,
     Metadata |-> session.Metadata]

\* The SessionInfo built by GetSessionInfo, lines 145-153, with the clock
\* reading t of time.Until.
NewSessionInfo(session, t) ==
    [ID |-> session.ID, CreatedAt |-> session.CreatedAt,
     ExpiresAt |-> session.ExpiresAt, LastUsed |-> session.LastUsed,
     TTLSeconds |-> session.ExpiresAt - t, IsValid |-> TRUE,
     HasMetadata |-> MetadataLen(session.Metadata) > 0]

\* GetSessionInfo(sessionID), called while no other goroutine is inside the
\* registry: GetSession (which removes an expired session and returns nil),
\* then the view of the session it returned.  t2 is the clock reading of
\* time.Until, not earlier than the one of GetSession's expiry check.
GetSessionInfo(id, t2) ==
    IF id \notin DOMAIN sessions
    THEN /\ t2 = now
         /\ slast' = [op |-> "GetSessionInfo", found |-> FALSE]
         /\ UNCHANGED <<now, sessions, gth, created>>
    ELSE IF now > sessions[id].ExpiresAt
    THEN /\ t2 = now
         /\ sessions' = Without(sessions, id)
         /\ gth' = Detach(sessions, Without(sessions, id))
         /\ created' = Removed(1, Without(sessions, id))
         /\ slast' = [op |-> "GetSessionInfo", found |-> FALSE]
         /\ UNCHANGED now
    ELSE /\ now <= t2
         /\ now' = t2
         /\ slast' = [op |-> "GetSessionInfo", found |-> TRUE,
                      info |-> NewSessionInfo(sessions[id], t2)]
         /\ UNCHANGED <<sessions, gth, created>>

\* cleanupExpired(): one pass of the periodic sweep (cleanupLoop's ticker).
cleanupExpired ==
    /\ ExpiredIds(sessions, now) # {}
    /\ sessions' = cleanupExpiredLocked(sessions, now)
    /\ gth' = Detach(sessions, cleanupExpiredLocked(sessions, now))
    /\ created' = Removed(Cardinality(ExpiredIds(sessions, now)),
                          cleanupExpiredLocked(sessions, now))
    /\ slast' = [op |-> "cleanupExpired"]
    /\ UNCHANGED now

\* A variant of cleanupLoop that goes on sweeping after it was stopped.
cleanupLoopNoStop == cleanupExpired

\* cleanupLoop: the ticker case, while the goroutine has not returned.
cleanupLoop ==
    /\ sessSweeper = "running"
    /\ cleanupExpired

\* NewSessionManager
SessionInit ==
    /\ sessions = <<>>
    /\ gth = [t \in Threads |-> IdleGet]
    /\ created = 0
    /\ slast = NoCall

\* The calls of the registry's clients and its background sweep.  T: the
\* goroutines that issue GetSession calls; every other call runs under the
\* exclusive lock and can come from any goroutine.
LockedNextOver(M) ==
    \/ Tick /\ UNCHANGED <<cacheVars, sessVars, retryVars, shutVars>>
    \/ \E m \in M, g \in IDs \cup {"err"} :
          CreateSession(m, g) /\ UNCHANGED <<cacheVars, retryVars, shutVars>>
    \/ \E id \in IDs, t2 \in 0..MaxTime, t3 \in 0..MaxTime :
          TouchSession(id, t2, t3) /\ UNCHANGED <<cacheVars, retryVars, shutVars>>
    \/ \E id \in IDs : DeleteSession(id) /\ UNCHANGED <<cacheVars, retryVars, shutVars>>
    \/ cleanupLoop /\ UNCHANGED <<cacheVars, retryVars, shutVars>>

GetSessionNextOver(T) ==
    \/ \E t \in T, id \in IDs : GetSessionLookup(t, id) /\ UNCHANGED <<cacheVars, retryVars, shutVars>>
    \/ \E t \in T : GetSessionCheck(t) /\ UNCHANGED <<cacheVars, retryVars, shutVars>>
    \/ \E t \in T : GetSessionDelete(t) /\ UNCHANGED <<cacheVars, retryVars, shutVars>>

\* The handlers that hold the exclusive lock from entry to return, called
\* with either kind of metadata.
LockedNext == LockedNextOver(Metadata)

\* One GetSession call in flight at a time, split where it holds no lock,
\* beside any number of callers of the other handlers.
SessionNext == LockedNextOver({"nil"}) \/ GetSessionNextOver({"t1"})

\* A GetSession call of one goroutine beside a TouchSession call of another,
\* both split where the scheduler can switch between them: GetSession's
\* expiry check runs with no lock and can fall inside TouchSession's locked
\* section; every step that takes the lock waits for TouchSession's Unlock.
\* The registry's first call creates the session; no id is generated twice.
SessionRaceNext ==
    \/ Tick /\ UNCHANGED <<cacheVars, sessVars, retryVars, shutVars>>
    \/ \E m \in Metadata :
          slast = NoCall /\ CreateSession(m, "s1")
          /\ UNCHANGED <<cacheVars, retryVars, shutVars>>
    \/ \E id \in {"s1", "s2"} :
          NoWriter /\ GetSessionLookup("t1", id)
          /\ UNCHANGED <<cacheVars, retryVars, shutVars>>
    \/ GetSessionCheck("t1") /\ UNCHANGED <<cacheVars, retryVars, shutVars>>
    \/ NoWriter /\ GetSessionDelete("t1")
       /\ UNCHANGED <<cacheVars, retryVars, shutVars>>
    \/ \E id \in {"s1", "s2"} :
          TouchSessionLock("t2", id) /\ UNCHANGED <<cacheVars, retryVars, shutVars>>
    \/ TouchSessionUnlock("t2") /\ UNCHANGED <<cacheVars, retryVars, shutVars>>

\* The read-only views of the registry, GetStats and GetSessionInfo, beside
\* the handlers that fill it, called with every kind of metadata.
InfoNext ==
    \/ Tick /\ UNCHANGED <<cacheVars, sessVars, retryVars, shutVars>>
    \/ \E m \in InfoMetadata, g \in {"s1", "s2"} :
          CreateSession(m, g) /\ UNCHANGED <<cacheVars, retryVars, shutVars>>
    \/ \E id \in {"s1"}, t \in 0..MaxTime :
          TouchSession(id, t, t) /\ UNCHANGED <<cacheVars, retryVars, shutVars>>
    \/ \E id \in {"s1", "s3"}, t2 \in 0..MaxTime :
          GetSessionInfo(id, t2) /\ UNCHANGED <<cacheVars, retryVars, shutVars>>
    \/ GetStatsCall /\ UNCHANGED <<cacheVars, retryVars, shutVars>>

(***************************************************************************)
(* pkg/clients/retry.go                                                    *)
(***************************************************************************)
RetryConfig(maxRetries, initialBackoff, maxBackoff, multiplier) ==
    [MaxRetries |-> maxRetries, InitialBackoff |-> initialBackoff,
     MaxBackoff |-> maxBackoff, Multiplier |-> multiplier]

\* The configurations callers pass.
RetryConfigs ==
    {RetryConfig(m, i, b, x) :
        m \in 0..MaxRetriesBound, i \in 0..MaxDuration,
        b \in 0..MaxDuration, x \in Multipliers}

\* The configurations callers can pass, a negative MaxRetries included.
RetryConfigsAny ==
    {RetryConfig(m, i, b, x) :
        m \in -1..1, i \in 0..MaxDuration, b \in 0..MaxDuration, x \in Multipliers}

\* A variant of isRetryable that retries every error.
isRetryableAny(err) == err # "nil"

\* isRetryable: the Kubernetes API error reasons that are retried.
isRetryable(err) ==
    err \in {"Timeout", "ServerTimeout", "TooManyRequests", "InternalError",
             "ServiceUnavailable"}

NotReturned == [kind |-> "none"]

\* Lines 63-66: the backoff after a wait.
NextBackoff(b, c) ==
    IF b * c.Multiplier > c.MaxBackoff THEN c.MaxBackoff ELSE b * c.Multiplier

\* A variant of LastAttempt that allows one invocation more.
LastAttemptLate(a, c) == a = c.MaxRetries + 1

\* A variant of LastAttempt that is off by one.
LastAttemptEarly(a, c) == a + 1 >= c.MaxRetries

\* Line 53: this was the last attempt.
LastAttempt(a, c) == a = c.MaxRetries

\* RetryWithBackoff(ctx, cfg, fn), lines 30-38: entry.  With a negative
\* MaxRetries the loop condition attempt <= cfg.MaxRetries fails at once and
\* line 70 returns the "max retries exceeded" error that wraps a nil lastErr.
RetryWithBackoff(c) ==
    /\ rpc = "idle"
    /\ cfg' = c
    /\ attempt' = 0
    /\ backoff' = c.InitialBackoff
    /\ IF 0 <= c.MaxRetries
       THEN rpc' = "call" /\ UNCHANGED rret
       ELSE /\ rpc' = "done"
            /\ rret' = [kind |-> "max retries exceeded",
                        n |-> c.MaxRetries, err |-> lastErr]
    /\ UNCHANGED <<lastErr, ctxDone, timerFired, fnErrs, waits, doneAt>>

\* A variant of Invoke that goes on retrying after a success while attempts
\* remain.
InvokeRetriesSuccess(err) ==
    /\ rpc = "call"
    /\ fnErrs' = Append(fnErrs, err)
    /\ IF err # "nil" /\ ~(err \in {"Timeout", "ServiceUnavailable"})
       THEN /\ rret' = [kind |-> "non-retryable error", err |-> err]
            /\ rpc' = "done"
            /\ lastErr' = err
       ELSE IF attempt = cfg.MaxRetries
       THEN /\ rret' = IF err = "nil" THEN [kind |-> "nil"]
                       ELSE [kind |-> "max retries exceeded",
                             n |-> cfg.MaxRetries, err |-> err]
            /\ rpc' = "done"
            /\ lastErr' = err
       ELSE /\ rpc' = "select"
            /\ lastErr' = err
            /\ UNCHANGED rret
    /\ UNCHANGED <<cfg, attempt, backoff, ctxDone, timerFired, waits, doneAt>>

\* Lines 40-55 and 70: one invocation of fn, which returns err, and what the
\* loop does with it: return nil, return the non-retryable error, leave the
\* loop on the last attempt, or start the backoff timer.
Invoke(err) ==
    /\ rpc = "call"
    /\ fnErrs' = Append(fnErrs, err)
    /\ IF err = "nil"
       THEN /\ rret' = [kind |-> "nil"]
            /\ rpc' = "done"
            /\ UNCHANGED lastErr
       ELSE /\ lastErr' = err
            /\ IF ~isRetryable(err)
               THEN /\ rret' = [kind |-> "non-retryable error", err |-> err]
                    /\ rpc' = "done"
               ELSE IF LastAttempt(attempt, cfg)
               THEN /\ rret' = [kind |-> "max retries exceeded",
                                n |-> cfg.MaxRetries, err |-> err]
                    /\ rpc' = "done"
               ELSE /\ rpc' = "select"
                    /\ UNCHANGED rret
    /\ UNCHANGED <<cfg, attempt, backoff, ctxDone, timerFired, waits, doneAt>>

\* Line 60: the return of the select's ctx.Done() case.
CancelledError == [kind |-> "context cancelled", n |-> attempt + 1, err |-> "ctx.Err"]

\* The caller cancels ctx.  A select parked on ctx.Done() is woken with that
\* case.
Cancel ==
    /\ ~ctxDone
    /\ rpc # "done"
    /\ ctxDone' = TRUE
    /\ doneAt' = IF rpc \in {"select", "parked"} THEN Len(fnErrs) ELSE doneAt
    /\ IF rpc = "parked"
       THEN rpc' = "done" /\ rret' = CancelledError
       ELSE UNCHANGED <<rpc, rret>>
    /\ UNCHANGED <<cfg, attempt, backoff, lastErr, timerFired, fnErrs, waits>>

\* The timer of time.After(backoff) expires.  A select parked on its channel
\* is woken with that case (lines 61-66).
TimerFire ==
    /\ rpc \in {"select", "parked"}
    /\ ~timerFired
    /\ IF rpc = "parked"
       THEN /\ waits' = Append(waits, backoff)
            /\ backoff' = NextBackoff(backoff, cfg)
            /\ attempt' = attempt + 1
            /\ rpc' = "call"
            /\ UNCHANGED timerFired
       ELSE /\ timerFired' = TRUE
            /\ UNCHANGED <<waits, backoff, attempt, rpc>>
    /\ UNCHANGED <<cfg, lastErr, rret, ctxDone, fnErrs, doneAt>>

\* Line 58: the select statement is entered.  A case that is ready is taken,
\* either one when both are; with none ready the goroutine parks.
Select ==
    /\ rpc = "select"
    /\ \/ /\ ctxDone
          /\ rpc' = "done" /\ rret' = CancelledError
          /\ UNCHANGED <<waits, backoff, attempt, timerFired>>
       \/ /\ timerFired
          /\ waits' = Append(waits, backoff)
          /\ backoff' = NextBackoff(backoff, cfg)
          /\ attempt' = attempt + 1
          /\ rpc' = "call"
          /\ timerFired' = FALSE
          /\ UNCHANGED rret
       \/ /\ ~ctxDone /\ ~timerFired
          /\ rpc' = "parked"
          /\ UNCHANGED <<waits, backoff, attempt, timerFired, rret>>
    /\ UNCHANGED <<cfg, lastErr, ctxDone, fnErrs, doneAt>>

RetryInit ==
    /\ cfg = RetryConfig(0, 0, 0, 1)
    /\ rpc = "idle"
    /\ attempt = 0
    /\ backoff = 0
    /\ lastErr = "nil"
    /\ rret = NotReturned
    /\ ctxDone = FALSE
    /\ timerFired = FALSE
    /\ fnErrs = <<>>
    /\ waits = <<>>
    /\ doneAt = -1

\* One call of RetryWithBackoff, its fn, its timer and its caller's context.
RetryNext ==
    \/ \E c \in RetryConfigs :
          RetryWithBackoff(c) /\ UNCHANGED <<now, cacheVars, sessVars, shutVars>>
    \/ \E err \in FnErrors : Invoke(err) /\ UNCHANGED <<now, cacheVars, sessVars, shutVars>>
    \/ Cancel /\ UNCHANGED <<now, cacheVars, sessVars, shutVars>>
    \/ TimerFire /\ UNCHANGED <<now, cacheVars, sessVars, shutVars>>
    \/ Select /\ UNCHANGED <<now, cacheVars, sessVars, shutVars>>

\* One call of RetryWithBackoff with any configuration.
RetryNextAny ==
    \/ \E c \in RetryConfigsAny :
          RetryWithBackoff(c) /\ UNCHANGED <<now, cacheVars, sessVars, shutVars>>
    \/ \E err \in FnErrors : Invoke(err) /\ UNCHANGED <<now, cacheVars, sessVars, shutVars>>
    \/ Cancel /\ UNCHANGED <<now, cacheVars, sessVars, shutVars>>
    \/ TimerFire /\ UNCHANGED <<now, cacheVars, sessVars, shutVars>>
    \/ Select /\ UNCHANGED <<now, cacheVars, sessVars, shutVars>>

(***************************************************************************)
(* Shutdown of the background sweeps                                       *)
(***************************************************************************)
\* MemoryCache.Close(): close(c.stopCleanup).  Closing a channel that is
\* already closed panics ("close of closed channel"); the panic reaches the
\* caller of Close and leaves the cache as it was.
Close ==
    /\ IF stopCleanup
       THEN /\ clast' = [op |-> "Close", panic |-> TRUE]
            /\ UNCHANGED stopCleanup
       ELSE /\ clast' = [op |-> "Close", panic |-> FALSE]
            /\ stopCleanup' = TRUE
    /\ UNCHANGED <<now, data, hits, misses, evictions, readers, cth, getCalls>>
    /\ UNCHANGED <<cacheSweeper, stopClean, sessSweeper>>

\* MemoryCache.cleanupExpired, case <-c.stopCleanup: stop the ticker, return.
CacheCleanupStop ==
    /\ stopCleanup
    /\ cacheSweeper = "running"
    /\ cacheSweeper' = "returned"
    /\ UNCHANGED <<stopCleanup, stopClean, sessSweeper>>

\* SessionManager.Stop(): close(sm.stopClean).  A second call panics, as a
\* second Close does.
Stop ==
    /\ IF stopClean
       THEN /\ slast' = [op |-> "Stop", panic |-> TRUE]
            /\ UNCHANGED stopClean
       ELSE /\ slast' = [op |-> "Stop", panic |-> FALSE]
            /\ stopClean' = TRUE
    /\ UNCHANGED <<now, sessions, gth, created>>
    /\ UNCHANGED <<stopCleanup, cacheSweeper, sessSweeper>>

\* SessionManager.cleanupLoop, case <-sm.stopClean: return.
cleanupLoopStop ==
    /\ stopClean
    /\ sessSweeper = "running"
    /\ sessSweeper' = "returned"
    /\ UNCHANGED <<stopCleanup, cacheSweeper, stopClean>>

ShutdownInit ==
    /\ stopCleanup = FALSE
    /\ cacheSweeper = "running"
    /\ stopClean = FALSE
    /\ sessSweeper = "running"

\* Both components with their sweeps, their shutdown calls and some
\* foreground calls.
ShutdownNext ==
    \/ Tick /\ UNCHANGED <<cacheVars, sessVars, retryVars, shutVars>>
    \/ Set("k1", "v1") /\ UNCHANGED <<sessVars, retryVars, shutVars>>
    \/ ResetStatistics /\ UNCHANGED <<sessVars, retryVars, shutVars>>
    \/ CacheCleanupExpired /\ UNCHANGED <<sessVars, retryVars, shutVars>>
    \/ Close /\ UNCHANGED <<sessVars, retryVars>>
    \/ CacheCleanupStop /\ UNCHANGED <<now, cacheVars, sessVars, retryVars>>
    \/ \E g \in {"s1", "s2"} :
          CreateSession("nil", g) /\ UNCHANGED <<cacheVars, retryVars, shutVars>>
    \/ DeleteSession("s1") /\ UNCHANGED <<cacheVars, retryVars, shutVars>>
    \/ cleanupLoop /\ UNCHANGED <<cacheVars, retryVars, shutVars>>
    \/ Stop /\ UNCHANGED <<cacheVars, retryVars>>
    \/ cleanupLoopStop /\ UNCHANGED <<now, cacheVars, sessVars, retryVars>>

Init ==
    /\ now = 0
    /\ CacheInit
    /\ SessionInit
    /\ RetryInit
    /\ ShutdownInit

SpecCache == Init /\ [][CacheNext]_vars

SpecCacheConc == Init /\ [][CacheNextConc]_vars

SpecCacheRace == Init /\ [][CacheNextRace]_vars

SpecCacheStats == Init /\ [][CacheNextStats]_vars

SpecSession == Init /\ [][SessionNext]_vars

SpecLocked == Init /\ [][LockedNext]_vars

SpecInfo == Init /\ [][InfoNext]_vars

SpecSessionRace == Init /\ [][SessionRaceNext]_vars

SpecRetry == Init /\ [][RetryNext]_vars

SpecRetryAny == Init /\ [][RetryNextAny]_vars

\* fn returns, the runtime fires a timer that was started, and the goroutine
\* of the call is scheduled when it can take a step.
SpecRetryFair ==
    /\ Init
    /\ [][RetryNext]_vars
    /\ WF_vars((\E err \in FnErrors : Invoke(err))
               /\ UNCHANGED <<now, cacheVars, sessVars, shutVars>>)
    /\ WF_vars(TimerFire /\ UNCHANGED <<now, cacheVars, sessVars, shutVars>>)
    /\ WF_vars(Select /\ UNCHANGED <<now, cacheVars, sessVars, shutVars>>)

\* A goroutine blocked in a select whose stop channel is closed is scheduled
\* and takes that case sooner or later.
SpecShutdown ==
    /\ Init
    /\ [][ShutdownNext]_vars
    /\ WF_vars(CacheCleanupStop /\ UNCHANGED <<now, cacheVars, sessVars, retryVars>>)
    /\ WF_vars(cleanupLoopStop /\ UNCHANGED <<now, cacheVars, sessVars, retryVars>>)


(***************************************************************************)
(* Claims about the cache                                                  *)
(***************************************************************************)

\* C1: a Get lookup (also the one inside GetOrSet / GetOrSetWithTTL) never
\* reports found = true for an entry whose expiry has passed (now >
\* expiresAt) at the moment of the lookup; a hit is an entry that is stored,
\* not expired, and whose value is the one returned.  While the lookup's
\* result is pending the entry stays in the store.
C1_NoExpiredHit ==
    [][\A t \in Threads :
          /\ (cth[t].pc = "idle" /\ cth'[t].pc = "load" /\ cth'[t].found)
                => /\ cth'[t].key \in DOMAIN data
                   /\ ~(now > data[cth'[t].key].Expiration)
                   /\ cth'[t].value = data[cth'[t].key].Value
          /\ (cth[t].pc = "store" /\ cth[t].op = "Get" /\ cth'[t].pc = "idle")
                => /\ clast'.op = "Get"
                   /\ clast'.found = cth[t].found
                   /\ clast'.value = cth[t].value
                   /\ clast'.found => cth[t].key \in DOMAIN data]_vars

\* C1 witness: a Get has looked up a key whose entry is still stored but
\* expired, and counts it as a miss.
C1_Witness ==
    \E t \in Threads :
        /\ cth[t].pc = "store" /\ cth[t].op = "Get" /\ ~cth[t].found
        /\ cth[t].key \in DOMAIN data
        /\ now > data[cth[t].key].Expiration

\* C2: for every key, value and positive TTL, the Get lookup in the state
\* right after Set / SetWithTTL(key, value, ttl) yields (value, true),
\* whatever was stored under the key before, and the other keys keep their
\* entries.  (A step of Set is a step that returns from Set, with its key.)
C2_SetThenGet ==
    [][clast'.op = "Set" =>
       \A k \in Keys, v \in Values, ttl \in TTLs :
          (k = clast'.key /\ ttl > 0 /\ SetWithTTL(k, v, ttl))
             => /\ GetResult(k)' = [found |-> TRUE, value |-> v]
                /\ \A k2 \in Keys \ {k} :
                      /\ (k2 \in DOMAIN data') = (k2 \in DOMAIN data)
                      /\ k2 \in DOMAIN data => data'[k2] = data[k2]]_vars

\* C2 witness: a Set has replaced a stored entry and a Get of that key finds
\* the entry.
C2_Witness ==
    /\ clast.op = "Set" /\ clast.replaced
    /\ GetResult(clast.key).found

\* C3: once every Get / GetOrSet call has returned, hits + misses equals the
\* number of Get lookups issued since creation or the last ResetStatistics.
C3_LookupsCounted ==
    (\A t \in Threads : cth[t].pc = "idle") => hits + misses = getCalls

\* C4 as stated: Delete returns false for an absent key and true for a
\* present one, besides its effect on the store and on evictions.
C4_DeleteReturnsBool ==
    [][\A k \in Keys :
          Delete(k) =>
             IF k \in DOMAIN data
             THEN /\ clast'.ret = "true"
                  /\ data' = [x \in DOMAIN data \ {k} |-> data[x]]
                  /\ evictions' = evictions + 1
             ELSE /\ clast'.ret = "false"
                  /\ data' = data
                  /\ evictions' = evictions]_vars

\* C4 amended: Delete returns no value; on an absent key it leaves the store
\* and evictions unchanged, on a present key (expired or not) it removes
\* exactly that entry and increments evictions by exactly 1; hits and misses
\* are never changed.
C4_Delete ==
    [][\A k \in Keys :
          Delete(k) =>
             /\ hits' = hits /\ misses' = misses
             /\ IF k \in DOMAIN data
                THEN /\ DOMAIN data' = DOMAIN data \ {k}
                     /\ \A x \in DOMAIN data' : data'[x] = data[x]
                     /\ evictions' = evictions + 1
                ELSE /\ data' = data
                     /\ evictions' = evictions]_vars

\* C4 witness: a Delete has removed a stored entry and counted the
\* eviction, and another entry is still stored.
C4_Witness ==
    /\ clast.op = "Delete" /\ clast.existed
    /\ evictions >= 1
    /\ DOMAIN data # {}

\* C5: when GetOrSet / GetOrSetWithTTL misses and compute returns an error,
\* the call returns that error and no value, and no step of the call has
\* written the store or evictions: the lookup, the counting of the miss and
\* the error return each leave the entry map and evictions as they were.
C5_ComputeErrorStoresNothing ==
    [][\A t \in Threads :
          /\ \A e \in Errors :
                ComputeFail(t, e)
                   => /\ clast'.op = "GetOrSet"
                      /\ clast'.err = e
                      /\ clast'.value = "nil"
                      /\ data' = data
                      /\ evictions' = evictions
          /\ (cth[t].op = "GetOrSet" /\ cth[t].pc = "compute" /\ cth'[t].pc = "idle")
                => data' = data /\ evictions' = evictions
          /\ (cth'[t].op = "GetOrSet" /\ cth'[t].pc \in {"load", "store", "compute"}
              /\ cth'[t].pc # cth[t].pc /\ cth'[t].value \notin Values)
                => data' = data /\ evictions' = evictions]_vars

\* C5 witness: a GetOrSet has returned compute's error while the store holds
\* an expired entry.
C5_Witness ==
    /\ clast.op = "GetOrSet" /\ clast.err \in Errors
    /\ ExpiredKeys # {}

(***************************************************************************)
(* Claims about the session registry                                       *)
(***************************************************************************)

\* C6: the registry never holds more than maxSessions sessions.
C6_AtMostMaxSessions == Cardinality(DOMAIN sessions) <= MaxSessions

\* C6 witness: the registry is full and a CreateSession was refused.
C6_Witness ==
    /\ Cardinality(DOMAIN sessions) = MaxSessions
    /\ slast.op = "CreateSession" /\ slast.err = "capacity"

\* C7: counting from an empty registry, and leaving aside a failure of the
\* random source, a CreateSession call succeeds while fewer than maxSessions
\* creations have succeeded (less the sessions removed since), and the call
\* after maxSessions successes fails with the capacity error when no stored
\* session is expired.
C7_CapacityAfterMaxCreates ==
    [][\A m \in Metadata, g \in IDs :
          CreateSession(m, g) =>
             IF created < MaxSessions
             THEN slast'.err = "nil"
             ELSE ExpiredIds(sessions, now) = {} => slast'.err = "capacity"]_vars

\* C8: GetSession returns absent for an unknown id and changes nothing; for
\* a stored session whose expiresAt has passed it goes on to remove the id
\* and returns absent, after which the id is not stored and GetStats counts
\* only the remaining sessions; for a stored, unexpired session it returns
\* the session and changes nothing.
C8_GetSession ==
    [][\A t \in Threads :
          /\ \A id \in IDs :
                (GetSessionLookup(t, id) /\ id \notin DOMAIN sessions)
                   => /\ slast'.op = "GetSession" /\ slast'.ret = "absent"
                      /\ sessions' = sessions
          /\ (gth[t].pc = "check" /\ gth'[t].pc # "check" /\ gth[t].live)
                => /\ sessions' = sessions
                   /\ IF now > sessions[gth[t].id].ExpiresAt
                      THEN gth'[t].pc = "delete" /\ gth'[t].id = gth[t].id
                      ELSE /\ gth'[t].pc = "idle"
                           /\ slast'.op = "GetSession" /\ slast'.ret = "session"
          /\ (gth[t].pc = "delete" /\ gth'[t].pc # "delete")
                => /\ slast'.op = "GetSession" /\ slast'.ret = "absent"
                   /\ gth[t].id \notin DOMAIN sessions'
                   /\ \A id \in DOMAIN sessions \ {gth[t].id} :
                         id \in DOMAIN sessions' /\ sessions'[id] = sessions[id]
                   /\ GetStats'.TotalSessions
                         = Cardinality(DOMAIN sessions \ {gth[t].id})
                   /\ GetStats'.ActiveSessions
                         = Cardinality((DOMAIN sessions \ {gth[t].id})
                                          \ ExpiredIds(sessions, now))]_vars

\* C8 witness: a GetSession has found its session expired, removed it from
\* a registry that still holds another session, and returned absent.
C8_Witness ==
    /\ slast.op = "GetSession" /\ slast.why = "expired"
    /\ GetStats.TotalSessions = 1

C10_ExpiryIsLastUsedPlusTTL ==
    \A id \in DOMAIN sessions :
        sessions[id].ExpiresAt = sessions[id].LastUsed + SessionTTL

\* C11: no successful TouchSession decreases expiresAt, and a successful
\* TouchSession entered at a clock time later than every clock reading of the
\* session's creation or previous touch (later than lastUsed and than
\* expiresAt - ttl) leaves expiresAt strictly greater than it was.
C11_TouchExtendsExpiry ==
    [][slast'.op = "TouchSession" =>
       \A id \in IDs, t2 \in 0..MaxTime, t3 \in 0..MaxTime :
          (TouchSession(id, t2, t3) /\ slast'.ret = TRUE) =>
             /\ sessions'[id].ExpiresAt >= sessions[id].ExpiresAt
             /\ (now > sessions[id].LastUsed
                 /\ now > sessions[id].ExpiresAt - SessionTTL)
                   => sessions'[id].ExpiresAt > sessions[id].ExpiresAt]_vars

\* C11 witness: a TouchSession has succeeded and the session's expiry lies
\* beyond the one it was created with.
C11_Witness ==
    /\ slast.op = "TouchSession" /\ slast.ret = TRUE
    /\ \E id \in DOMAIN sessions :
          sessions[id].ExpiresAt > sessions[id].CreatedAt + SessionTTL

\* C12: DeleteSession(id) returns true exactly when the id was stored; after
\* the call the id is not stored and every other session is as it was; a
\* DeleteSession of an id that is not stored (so also a second one right
\* after) returns false and changes nothing, and a GetSession call that
\* looks the id up while it is not stored returns absent at once.
C12_DeleteSession ==
    [][/\ slast'.op = "DeleteSession" =>
          \A id \in IDs :
             DeleteSession(id) =>
                /\ slast'.ret = (id \in DOMAIN sessions)
                /\ id \notin DOMAIN sessions'
                /\ DOMAIN sessions' = DOMAIN sessions \ {id}
                /\ \A x \in DOMAIN sessions' : sessions'[x] = sessions[x]
                /\ id \notin DOMAIN sessions
                      => slast'.ret = FALSE /\ sessions' = sessions
       /\ slast'.op = "GetSession" =>
          \A t \in Threads, id \in IDs \ DOMAIN sessions :
             GetSessionLookup(t, id)
                => /\ slast' = [op |-> "GetSession", ret |-> "absent",
                                why |-> "unknown"]
                   /\ gth'[t].pc = "idle"
                   /\ sessions' = sessions]_vars

\* C12 witness: a DeleteSession has removed a session and returned true,
\* and another session is still stored.
C12_Witness ==
    /\ slast.op = "DeleteSession" /\ slast.ret = TRUE
    /\ DOMAIN sessions # {}

\* C13: the terminal state of a session is absorbing.  A stored session
\* whose expiry has passed is never extended or altered: after any step it
\* is either unchanged, or removed, or its id has been given to a session
\* created at that moment.  A session enters the registry only through a
\* successful CreateSession, with fresh timestamps, so a removed session
\* never returns.  GetSession returns a session only if the session it
\* looked up is not past its expiry when checked.
C13_TerminalIsAbsorbing ==
    [][/\ \A id \in DOMAIN sessions :
             now > sessions[id].ExpiresAt =>
                \/ id \notin DOMAIN sessions'
                \/ sessions'[id] = sessions[id]
                \/ /\ slast'.op = "CreateSession" /\ slast'.err = "nil"
                   /\ sessions'[id].CreatedAt = now
       /\ \A id \in DOMAIN sessions' :
             (id \notin DOMAIN sessions
              \/ sessions'[id].CreatedAt # sessions[id].CreatedAt)
                => /\ slast'.op = "CreateSession" /\ slast'.err = "nil"
                   /\ sessions'[id].CreatedAt = now
                   /\ sessions'[id].LastUsed = now
                   /\ sessions'[id].ExpiresAt = now + SessionTTL
       /\ \A t \in Threads :
             (gth[t].pc = "check" /\ gth'[t].pc = "idle"
              /\ slast'.op = "GetSession" /\ slast'.ret = "session")
                => IF gth[t].live
                   THEN ~(now > sessions[gth[t].id].ExpiresAt)
                   ELSE ~(now > gth[t].exp)]_vars

\* C13 witness: a GetSession has found its session expired, the session has
\* been removed meanwhile, and a TouchSession has just been refused.
C13_Witness ==
    /\ slast.op = "TouchSession" /\ slast.ret = FALSE
    /\ \E t \in Threads :
          gth[t].pc = "delete" /\ gth[t].id \notin DOMAIN sessions

(***************************************************************************)
(* Claims about the retry policy                                           *)
(***************************************************************************)

\* C14: an invocation of the operation that succeeds is the last one and
\* RetryWithBackoff has returned success after it; every invocation before
\* it failed with a retryable error and was followed by exactly one backoff
\* wait.  So with maxRetries = 3 and two retryable failures before the
\* success there are exactly 3 invocations and 2 waits.
C14_SuccessReturnsAtOnce ==
    /\ \A i \in 1..Len(fnErrs) :
          fnErrs[i] = "nil"
             => /\ i = Len(fnErrs)
                /\ rpc = "done"
                /\ rret = [kind |-> "nil"]
                /\ Len(waits) = i - 1
                /\ \A j \in 1..(i - 1) :
                      fnErrs[j] \in {"Timeout", "ServiceUnavailable"}
    /\ rret.kind = "nil" => Len(fnErrs) >= 1 /\ fnErrs[Len(fnErrs)] = "nil"

\* C14 witness: maxRetries = 3, two retryable failures, then a success:
\* three invocations, two waits, success returned.
C14_Witness ==
    /\ cfg.MaxRetries = 3
    /\ rret.kind = "nil"
    /\ Len(fnErrs) = 3
    /\ Len(waits) = 2

\* C15: an invocation that fails with a non-retryable error (NotFound) is
\* the last one: RetryWithBackoff has returned, with no wait after it, the
\* non-retryable error that wraps this failure; when it is the first
\* invocation the operation was invoked exactly once.
C15_NonRetryableAborts ==
    /\ \A i \in 1..Len(fnErrs) :
          fnErrs[i] = "NotFound"
             => /\ i = Len(fnErrs)
                /\ rpc = "done"
                /\ rret = [kind |-> "non-retryable error", err |-> "NotFound"]
                /\ Len(waits) = i - 1
    /\ rret.kind = "non-retryable error"
          => /\ rret.kind \notin {"max retries exceeded", "context cancelled"}
             /\ rret.err = fnErrs[Len(fnErrs)]

\* C15 witness: the second invocation failed with a non-retryable error
\* while attempts remained, and the call has returned it.
C15_Witness ==
    /\ rret.kind = "non-retryable error"
    /\ Len(fnErrs) = 2
    /\ cfg.MaxRetries = 3

\* C16: the operation is never invoked more than maxRetries + 1 times; when
\* the call has returned, every invocation failed with a retryable error
\* and ctx was not cancelled, there were exactly maxRetries + 1 invocations
\* and maxRetries waits, and the error returned is the exhausted-budget
\* error that reports maxRetries and wraps the last failure.
C16_ExhaustedBudget ==
    /\ Len(fnErrs) <= cfg.MaxRetries + 1
    /\ (/\ rpc = "done"
        /\ ~ctxDone
        /\ \A i \in 1..Len(fnErrs) : fnErrs[i] \in {"Timeout", "ServiceUnavailable"})
          => /\ Len(fnErrs) = cfg.MaxRetries + 1
             /\ Len(waits) = cfg.MaxRetries
             /\ rret = [kind |-> "max retries exceeded", n |-> cfg.MaxRetries,
                        err |-> fnErrs[Len(fnErrs)]]
    /\ rret.kind = "max retries exceeded"
          => Len(waits) = cfg.MaxRetries /\ Len(fnErrs) = cfg.MaxRetries + 1

\* C16 witness: maxRetries = 3, four retryable failures of which the last
\* differs from the first, budget exhausted.
C16_Witness ==
    /\ cfg.MaxRetries = 3
    /\ rret.kind = "max retries exceeded"
    /\ ~ctxDone
    /\ fnErrs[1] # fnErrs[4]

\* C17: once ctx has been cancelled during a backoff wait, the operation is
\* not invoked again, and the call returns the cancellation error that
\* reports the number of invocations made when the cancellation fired.
C17_CancelDuringWaitAborts ==
    doneAt # -1
       => /\ Len(fnErrs) = doneAt
          /\ rpc = "done" => rret = [kind |-> "context cancelled", n |-> doneAt,
                                     err |-> "ctx.Err"]

\* C18: the wait before the first retry is min(initialBackoff, maxBackoff)
\* and the wait before each later retry is min(previous wait * multiplier,
\* maxBackoff); for multipliers >= 1 this is min(initialBackoff *
\* multiplier^(k-1), maxBackoff).  No wait exceeds maxBackoff.
C18_BackoffSchedule ==
    \A k \in 1..Len(waits) :
       /\ waits[k] <= cfg.MaxBackoff
       /\ waits[k] = IF k = 1
                     THEN IF cfg.InitialBackoff < cfg.MaxBackoff
                          THEN cfg.InitialBackoff ELSE cfg.MaxBackoff
                     ELSE IF waits[k - 1] * cfg.Multiplier < cfg.MaxBackoff
                          THEN waits[k - 1] * cfg.Multiplier ELSE cfg.MaxBackoff

(***************************************************************************)
(* Claims about shutdown and about the frame of Get                        *)
(***************************************************************************)

\* C19: after Close (Stop) the background sweep goroutine of the cache (of
\* the registry) eventually returns; once it has returned it stays so and
\* no background sweep removes an entry (a session) any more; and Set,
\* CreateSession and DeleteSession can be called whether or not the
\* shutdown call has been made.
C19_ShutdownStopsSweep ==
    /\ stopCleanup ~> (cacheSweeper = "returned")
    /\ stopClean ~> (sessSweeper = "returned")
    /\ [][/\ cacheSweeper = "returned"
             => /\ cacheSweeper' = "returned"
                /\ ~(clast'.op = "cleanupExpired" /\ data' # data)
          /\ sessSweeper = "returned"
             => /\ sessSweeper' = "returned"
                /\ ~(slast'.op = "cleanupExpired" /\ sessions' # sessions)]_vars
    /\ [](/\ ENABLED (Set("k1", "v1") /\ UNCHANGED <<sessVars, retryVars, shutVars>>)
          /\ ENABLED (CreateSession("nil", "s1")
                      /\ UNCHANGED <<cacheVars, retryVars, shutVars>>)
          /\ ENABLED (DeleteSession("s1")
                      /\ UNCHANGED <<cacheVars, retryVars, shutVars>>))

\* C19 witness: both sweep goroutines have returned after the shutdown calls
\* and an expired entry and an expired session are still stored.
C19_Witness ==
    /\ stopCleanup /\ cacheSweeper = "returned"
    /\ stopClean /\ sessSweeper = "returned"
    /\ ExpiredKeys # {}
    /\ ExpiredIds(sessions, now) # {}

\* C20: a Get that found its key present but expired increments misses by
\* exactly 1 when it returns and leaves hits, evictions and the entry map
\* unchanged; no step of any Get changes the entry map or evictions.
C20_ExpiredGetIsOneMiss ==
    [][\A t \in Threads :
          /\ (cth[t].pc = "store" /\ cth'[t].pc # "store" /\ cth[t].op = "Get"
              /\ ~cth[t].found /\ cth[t].key \in DOMAIN data)
                => /\ misses' = misses + 1
                   /\ hits' = hits
                   /\ evictions' = evictions
                   /\ data' = data
          /\ (cth'[t] # cth[t] /\ cth'[t].pc \in {"load", "store"})
                => data' = data /\ evictions' = evictions]_vars



\* C21: Clear leaves the store empty and adds to evictions the number of
\* entries stored just before the call, expired entries that were not yet
\* swept included; hits and misses keep their values.  On an empty store it
\* changes nothing.
C21_Clear ==
    [][clast'.op = "Clear" =>
         (Clear =>
            /\ data' = <<>>
            /\ evictions' = evictions + Cardinality(DOMAIN data)
            /\ hits' = hits
            /\ misses' = misses
            /\ (DOMAIN data = {} => data' = data /\ evictions' = evictions))]_vars

\* Clear has returned after it removed at least one entry.
C21_Witness ==
    /\ clast.op = "Clear"
    /\ data = <<>>
    /\ evictions >= 1

\* C22: ResetStatistics sets hits, misses and evictions to 0 and leaves every
\* stored entry as it was, so that a Get of any key yields after the reset
\* what it yielded before.
C22_ResetStatistics ==
    [][clast'.op = "ResetStatistics" =>
         (ResetStatistics =>
            /\ hits' = 0
            /\ misses' = 0
            /\ evictions' = 0
            /\ data' = data
            /\ \A k \in Keys : GetResult(k)' = GetResult(k))]_vars

\* ResetStatistics has returned while a live entry is stored.
C22_Witness ==
    /\ clast.op = "ResetStatistics"
    /\ hits = 0 /\ misses = 0 /\ evictions = 0
    /\ \E k \in Keys : GetResult(k).found

(***************************************************************************)
(* Claims about the registry's views and its sweep                         *)
(***************************************************************************)

\* C23: GetStats classifies every stored session as active or expired at one
\* clock reading: active + expired = total = the number of stored sessions.
\* It reports the configured maximum and time-to-live, and it adds, removes
\* and modifies no session.
C23_GetStats ==
    [][slast'.op = "GetStats" =>
         (GetStatsCall =>
            /\ slast'.stats.ActiveSessions + slast'.stats.ExpiredSessions
                 = slast'.stats.TotalSessions
            /\ slast'.stats.TotalSessions = Cardinality(DOMAIN sessions)
            /\ slast'.stats.ExpiredSessions
                 = Cardinality({id \in DOMAIN sessions :
                                  now > sessions[id].ExpiresAt})
            /\ slast'.stats.MaxSessions = MaxSessions
            /\ slast'.stats.SessionTTL = DurationString(SessionTTL)
            /\ sessions' = sessions)]_vars

\* GetStats has returned counting an active and an expired session.
C23_Witness ==
    /\ slast.op = "GetStats"
    /\ slast.stats.ActiveSessions >= 1
    /\ slast.stats.ExpiredSessions >= 1

\* C24: GetSessionInfo returns absent for an id that is unknown or expired;
\* otherwise it returns a view that depends on the session's metadata only
\* through whether the metadata is non-empty: the same call on a registry
\* in which the session carries any other metadata of the same emptiness
\* returns the identical view.
C24_GetSessionInfo ==
    [][slast'.op = "GetSessionInfo" =>
         \A id \in IDs, t2 \in 0..MaxTime :
            GetSessionInfo(id, t2) =>
               IF id \notin DOMAIN sessions \/ now > sessions[id].ExpiresAt
               THEN slast'.found = FALSE
               ELSE /\ slast'.found
                    /\ slast'.info.ID = id
                    /\ slast'.info.IsValid
                    /\ slast'.info.HasMetadata
                         = (sessions[id].Metadata \notin {"nil", "empty"})
                    /\ \A m \in InfoMetadata :
                          (m \in {"nil", "empty"})
                             = (sessions[id].Metadata \in {"nil", "empty"})
                          => NewSessionInfo([sessions[id] EXCEPT !.Metadata = m], t2)
                               = slast'.info]_vars

\* GetSessionInfo has returned the view of a session that carries metadata.
C24_Witness ==
    /\ slast.op = "GetSessionInfo"
    /\ slast.found
    /\ slast.info.HasMetadata
    /\ \E id \in DOMAIN sessions :
          id = slast.info.ID /\ sessions[id].Metadata = "m2"

\* C25: a pass of the registry's sweep removes every session whose expiry
\* has passed and no other session, and leaves the others as they were;
\* when every stored session is expired the registry holds 0 sessions after
\* the pass.
C25_SessionSweep ==
    [][slast'.op = "cleanupExpired" =>
         (cleanupExpired =>
            /\ DOMAIN sessions'
                 = {id \in DOMAIN sessions : ~(now > sessions[id].ExpiresAt)}
            /\ \A id \in DOMAIN sessions' : sessions'[id] = sessions[id]
            /\ ((\A id \in DOMAIN sessions : now > sessions[id].ExpiresAt)
                  => Cardinality(DOMAIN sessions') = 0))]_vars

\* A pass of the sweep has removed a session and left another one stored.
C25_Witness ==
    /\ slast.op = "cleanupExpired"
    /\ DOMAIN sessions # {}
    /\ created >= 1

(***************************************************************************)
(* Claims about the cache under concurrent callers                         *)
(***************************************************************************)

\* C26: every write of hits, misses or evictions is made while the writer
\* holds the lock exclusively: no counter changes while a goroutine holds
\* the read lock.
C26_CountersWrittenExclusively ==
    [][(hits' # hits \/ misses' # misses \/ evictions' # evictions)
          => readers = {}]_vars

\* C27: GetOrSet does not compute at most once per key: two callers for one
\* absent key can both miss, both compute and both store, and each store
\* overwrites the entry, so that the key holds the value of the caller that
\* stored last.
C27_LastStoreWins ==
    [][\A t \in Threads :
          (cth[t].pc = "set" /\ cth'[t].pc = "idle") =>
             \A k \in Keys :
                k = cth[t].key =>
                   GetResult(k)' = [found |-> TRUE, value |-> cth[t].value]]_vars

\* Two GetOrSet callers for the same absent key have both missed and both
\* computed, with different values, and both are about to store.
C27_Witness ==
    /\ cth["t1"].pc = "set"
    /\ cth["t2"].pc = "set"
    /\ cth["t1"].op = "GetOrSet"
    /\ cth["t2"].op = "GetOrSet"
    /\ cth["t1"].key = cth["t2"].key
    /\ cth["t1"].value # cth["t2"].value
    /\ cth["t1"].key \notin DOMAIN data

\* C28: no lock of the cache is held while compute runs: the caller inside
\* compute does not hold the read lock, and a Set by another goroutine can
\* take the exclusive lock and complete unless some other Get is in
\* progress.
C28_NoLockDuringCompute ==
    \A t \in Threads :
       cth[t].pc = "compute" =>
          /\ t \notin readers
          /\ (readers \ {t} = {} => ENABLED Set("k1", "v1"))

\* A Set has completed while a GetOrSet caller that missed is inside
\* compute: the entry it stored is live.
C28_Witness ==
    \E t \in Threads :
       /\ cth[t].pc = "compute"
       /\ clast.op = "Set"
       /\ GetResult(cth[t].key).found

\* C29: GetOrSet on a live entry returns the cached value without calling
\* compute and without writing the store.  compute is called only after a
\* miss; when it succeeds its value is stored under the key, with the
\* default or the given TTL, before GetOrSet returns it, so that a Get that
\* follows finds that value.
C29_GetOrSet ==
    [][\A t \in Threads :
          /\ (cth[t].pc = "store" /\ cth[t].op = "GetOrSet" /\ cth[t].found
              /\ GetStore(t)) =>
                /\ clast' = [op |-> "GetOrSet",
                             value |-> data[cth[t].key].Value, err |-> "nil"]
                /\ cth'[t].pc = "idle"
                /\ data' = data
          /\ (cth[t].pc # "compute" /\ cth'[t].pc = "compute") =>
                ~GetResult(cth[t].key).found
          /\ (cth[t].pc = "set" /\ GetOrSetStore(t)) =>
                /\ clast' = [op |-> "GetOrSet", value |-> cth[t].value,
                             err |-> "nil"]
                /\ \A k \in Keys :
                      IF k = cth[t].key
                      THEN /\ k \in DOMAIN data'
                           /\ data'[k] = CacheEntry(cth[t].value, now + cth[t].ttl)
                           /\ (cth[t].ttl > 0 =>
                                 GetResult(k)' = [found |-> TRUE,
                                                  value |-> cth[t].value])
                      ELSE /\ (k \in DOMAIN data') = (k \in DOMAIN data)
                           /\ (k \in DOMAIN data => data'[k] = data[k])]_vars

\* GetOrSet has returned a computed value after a miss, and a lookup of the
\* key finds that value.
C29_Witness ==
    /\ clast.op = "GetOrSet"
    /\ clast.err = "nil"
    /\ hits = 0
    /\ misses >= 1
    /\ Cardinality(DOMAIN data) = 1
    /\ \E k \in DOMAIN data :
          GetResult(k) = [found |-> TRUE, value |-> clast.value]

\* C30: a pass of the cache's background sweep removes every entry whose
\* expiry has passed and no other entry, adds the number of removed entries
\* to evictions and leaves hits and misses as they were.
C30_CacheSweep ==
    [][clast'.op = "cleanupExpired" =>
         (CacheCleanupExpired =>
            /\ DOMAIN data'
                 = {k \in DOMAIN data : ~(now > data[k].Expiration)}
            /\ \A k \in DOMAIN data' : data'[k] = data[k]
            /\ evictions'
                 = evictions + Cardinality(DOMAIN data \ DOMAIN data')
            /\ hits' = hits
            /\ misses' = misses)]_vars

\* A pass of the sweep has removed an entry and left another one stored.
C30_Witness ==
    /\ clast.op = "cleanupExpired"
    /\ evictions >= 1
    /\ DOMAIN data # {}


(***************************************************************************)
(* Claims about shutdown twice, and about the retry policy's termination   *)
(***************************************************************************)

\* C33: shutdown is idempotent: a second call of the cache's Close, or of
\* the registry's Stop, does not fail (it does not panic).
C33_ShutdownIdempotent ==
    /\ ~(clast.op = "Close" /\ clast.panic)
    /\ ~(slast.op = "Stop" /\ slast.panic)

\* C37: for every retry configuration, a negative maxRetries included,
\* RetryWithBackoff has invoked the operation at least once when it returns,
\* and it returns success exactly when its last invocation succeeded.
C37_InvokedAtLeastOnce ==
    rpc = "done" =>
       /\ Len(fnErrs) >= 1
       /\ (rret.kind = "nil") = (fnErrs[Len(fnErrs)] = "nil")

\* C38: if ctx is already cancelled when RetryWithBackoff is called, the
\* operation is invoked at most once.
C38_CancelledBeforeCall ==
    [](ctxDone /\ rpc = "idle" => [](Len(fnErrs) <= 1))

\* C40: every call of RetryWithBackoff with maxRetries >= 0 returns, given
\* that fn returns and timers fire: it reaches one of the four outcomes
\* (success, non-retryable error, exhausted budget, cancellation) after at
\* most maxRetries + 1 invocations and at most maxRetries waits.
C40_Terminates ==
    /\ [](/\ Len(fnErrs) <= cfg.MaxRetries + 1
          /\ Len(waits) <= cfg.MaxRetries
          /\ rpc = "done" =>
                rret.kind \in {"nil", "non-retryable error",
                               "max retries exceeded", "context cancelled"})
    /\ (rpc # "idle") ~> (rpc = "done")

\* A call has returned after maxRetries + 1 invocations and maxRetries
\* waits, the most it can make.
C40_Witness ==
    /\ rpc = "done"
    /\ cfg.MaxRetries >= 2
    /\ Len(fnErrs) = cfg.MaxRetries + 1
    /\ Len(waits) = cfg.MaxRetries


(***************************************************************************)
(* Claims about non-positive TTLs, the hit rate and the evictions counter  *)
(***************************************************************************)

\* C31: an entry stored by SetWithTTL with ttl <= 0 is expired from the
\* start: a Get of its key finds nothing, also at the clock instant of the
\* store.
C31_NonPositiveTTLIsExpired ==
    [][\A k \in Keys, v \in Values, ttl \in TTLs :
          (ttl <= 0 /\ SetWithTTL(k, v, ttl)) => ~(GetResult(k).found)']_vars

\* C32: GetStatistics reports hitRate = hits / (hits + misses), a ratio
\* between 0 and 1, from the counters it reports, and 0 when no lookup was
\* counted.
C32_HitRateIsRatio ==
    clast.op = "GetStatistics" =>
       IF clast.Hits + clast.Misses = 0
       THEN clast.HitRate.num = 0
       ELSE /\ clast.HitRate.num * (clast.Hits + clast.Misses)
                 = clast.Hits * clast.HitRate.den
            /\ 0 <= clast.HitRate.num
            /\ clast.HitRate.num <= clast.HitRate.den

\* C39: in every step other than a ResetStatistics, evictions grows by the
\* number of entries the step removes from the store, a step adds at most
\* one entry, which only a Set (also the one inside GetOrSet) does, and a
\* Set that overwrites a stored key changes no counter.  From the empty
\* store of a new cache: stored entries = insertions - evictions as long as
\* no reset is made.
C39_EvictionsCountRemovals ==
    [][/\ (data' # data \/ evictions' # evictions) =>
            (~ResetStatistics =>
               /\ evictions' - evictions
                    = Cardinality(DOMAIN data \ DOMAIN data')
               /\ Cardinality(DOMAIN data' \ DOMAIN data) <= 1
               /\ (DOMAIN data' \ DOMAIN data # {}
                     => clast'.op \in {"Set", "GetOrSet"}))
       /\ (clast'.op = "Set" /\ clast'.replaced /\ now' = now /\ cth' = cth) =>
            \A k \in DOMAIN data, v \in Values, ttl \in TTLs :
               (k = clast'.key /\ SetWithTTL(k, v, ttl)) =>
                  /\ hits' = hits /\ misses' = misses
                  /\ evictions' = evictions
                  /\ DOMAIN data' = DOMAIN data]_vars

\* A Set has overwritten a stored key after an entry was evicted, and two
\* entries are stored.
C39_Witness ==
    /\ clast.op = "Set"
    /\ clast.replaced
    /\ evictions >= 1
    /\ Cardinality(DOMAIN data) = 2


(***************************************************************************)
(* Claims about id collisions, creation at capacity and GetSession's race  *)
(***************************************************************************)

\* C34: a successful CreateSession overwrites no stored session: every
\* session that was stored and not expired is kept as it was, and exactly
\* one id is stored afterwards that was not stored before.
C34_NoSilentOverwrite ==
    [][(slast'.op = "CreateSession" /\ slast'.err = "nil") =>
         \A m \in Metadata, g \in IDs :
            CreateSession(m, g) =>
               /\ \A id \in DOMAIN sessions :
                     ~(now > sessions[id].ExpiresAt)
                        => id \in DOMAIN sessions' /\ sessions'[id] = sessions[id]
               /\ Cardinality(DOMAIN sessions' \ DOMAIN sessions) = 1]_vars

C36_GetSessionDeletesOnlyExpired ==
    [][\A t \in Threads :
          (gth[t].pc = "delete" /\ gth[t].id \in DOMAIN sessions
           /\ GetSessionDelete(t))
             => now > sessions[gth[t].id].ExpiresAt]_vars

============================================================================
